---- MODULE Spec2Model ----
(***************************************************************************)
(* A model of aw-core's storage strategies (aw_datastore/                  *)
(* storage_strategies.py) and of the flooding transform (aw_transform/     *)
(* flood.py).                                                              *)
(*                                                                         *)
(* The strategy is a start-up choice.  The model runs either the Memory    *)
(* and the File strategy side by side (every call is made on both with the *)
(* same arguments) or the MongoDB strategy; `last` records the call and    *)
(* what each strategy under test answered.                                 *)
(* Python exceptions are outcomes: a method operator yields                *)
(* [st, exc, val], the store after the call, the exception class raised    *)
(* ("none" when the call returned) and the returned value.                 *)
(***************************************************************************)
EXTENDS Integers, Sequences, FiniteSets, TLC

VARIABLES
    sel,    \* the strategies under test, fixed at start-up
    mem,    \* MemoryStorageStrategy: [db, meta]
    fs,     \* FileStorageStrategy, the file system under buckets_dir: [dirs, meta, log]
    mongo,  \* MongoDBStorageStrategy, the database: [events, meta]
    last,   \* the last call and its outcome in each strategy
    deleted, \* the ids whose bucket delete_bucket removed and that were not created since
    rl,     \* FileStorageStrategy.replace_last in flight, statement by statement
    fl      \* flood: its input, its pulsetime and the results of applying it

vars == <<sel, mem, fs, mongo, last, deleted, rl, fl>>

----------------------------------------------------------------------------
(* Bounds of the model *)

\* most events (File: log lines, MongoDB: documents) a strategy is grown to hold
MaxEvents == 2
\* get_events is called with limit in -1 .. MaxLimit
MaxLimit == 2
\* insert_many is called with lists of 0 .. MaxBatch events
MaxBatch == 2

\* sys.maxsize, the limit get_events substitutes for -1 (2^63 - 1 on the
\* real interpreter; any value above every sequence length slices alike)
sys_maxsize == 2147483647

BucketIds == {"b1", "b2"}

\* name=None, and the empty string: both are falsy in `if not name`
NoName == ""
Names == {NoName, "n1"}
TypeIds == {"t1"}
TheClient == "c1"
TheHostname == "h1"
TheCreated == "2017-01-01"

\* What a method returns when it returns nothing
None == [none |-> TRUE]

----------------------------------------------------------------------------
(* Events *)

\* aw_core.models.Event: timestamp (an instant, in seconds), duration (seconds), data
Event(t, d, x) == [timestamp |-> t, duration |-> d, data |-> x]

StoreEvents == {Event(1, 1, "x"), Event(0, 2, "y")}

\* datetime.isoformat(): a string, not the instant
IsoFormat(t) == [iso |-> t]

\* Event.to_json_dict(): timestamp as ISO-8601 string, duration as seconds
to_json_dict(e) ==
    [timestamp |-> IsoFormat(e.timestamp), duration |-> e.duration, data |-> e.data]

\* json.dumps(v): one line of text holding v
json_dumps(v) == [json |-> v]

\* the text "", which a log holds as a line after a bare "\n" was appended
BlankLine == [blank |-> TRUE]

\* json.loads raises JSONDecodeError on a blank line
json_decodable(line) == "json" \in DOMAIN line

json_loads(line) == line.json

\* [json.loads(line) for line in lines]
loads_all(lines) == [i \in 1..Len(lines) |-> json_loads(lines[i])]

\* the JSON dictionaries of a list of events
to_json_dicts(events) == [i \in 1..Len(events) |-> to_json_dict(events[i])]

----------------------------------------------------------------------------
(* Python helpers *)

\* s[-n:] for a Python list s
PySliceLast(s, n) ==
    IF n = 0 THEN s
    ELSE IF n > 0
         THEN IF n >= Len(s) THEN s ELSE SubSeq(s, Len(s) - n + 1, Len(s))
         ELSE IF -n >= Len(s) THEN <<>> ELSE SubSeq(s, -n + 1, Len(s))

\* dictionaries
EmptyDict == [k \in {} |-> None]

DictPut(f, k, v) == [x \in (DOMAIN f) \cup {k} |-> IF x = k THEN v ELSE f[x]]

DictDel(f, k) == [x \in (DOMAIN f) \ {k} |-> f[x]]

Ok(st, v) == [st |-> st, exc |-> "none", val |-> v]

Raise(st, e) == [st |-> st, exc |-> e, val |-> None]

\* the metadata dictionary create_bucket builds, `if not name: name = bucket_id`
Metadata(bucket_id, type_id, client, hostname, created, name) ==
    [id |-> bucket_id,
     name |-> IF name = NoName THEN bucket_id ELSE name,
     type |-> type_id,
     client |-> client,
     hostname |-> hostname,
     created |-> created]

----------------------------------------------------------------------------
(* MemoryStorageStrategy *)

Mem_create_bucket(st, bucket_id, type_id, client, hostname, created, name) ==
    Ok([db |-> DictPut(st.db, bucket_id, <<>>),
        meta |-> DictPut(st.meta, bucket_id,
                         Metadata(bucket_id, type_id, client, hostname, created, name))],
       None)

Mem_delete_bucket(st, bucket_id) ==
    IF bucket_id \notin DOMAIN st.db THEN Raise(st, "KeyError")
    ELSE LET st1 == [st EXCEPT !.db = DictDel(st.db, bucket_id)]
         IN  IF bucket_id \notin DOMAIN st.meta THEN Raise(st1, "KeyError")
             ELSE Ok([st1 EXCEPT !.meta = DictDel(st.meta, bucket_id)], None)

Mem_get_metadata(st, bucket_id) ==
    IF bucket_id \notin DOMAIN st.meta THEN Raise(st, "KeyError")
    ELSE Ok(st, st.meta[bucket_id])

Mem_buckets(st) ==
    IF \E b \in DOMAIN st.db : b \notin DOMAIN st.meta THEN Raise(st, "KeyError")
    ELSE Ok(st, [b \in DOMAIN st.db |-> st.meta[b]])

Mem_get_events(st, bucket, limit) ==
    LET lim == IF limit = -1 THEN sys_maxsize ELSE limit
    IN  IF bucket \notin DOMAIN st.db THEN Raise(st, "KeyError")
        ELSE Ok(st, PySliceLast(st.db[bucket], lim))

Mem_insert_one(st, bucket, event) ==
    IF bucket \notin DOMAIN st.db THEN Raise(st, "KeyError")
    ELSE Ok([st EXCEPT !.db[bucket] = Append(@, event)], None)

\* StorageStrategy.insert_many, which Memory inherits
RECURSIVE Mem_insert_many(_, _, _)
Mem_insert_many(st, bucket, events) ==
    IF events = <<>> THEN Ok(st, None)
    ELSE LET r == Mem_insert_one(st, bucket, Head(events))
         IN  IF r.exc # "none" THEN r
             ELSE Mem_insert_many(r.st, bucket, Tail(events))

\* replace_last written as the slice assignment self.db[bucket_id][-1:] = [event],
\* which appends to an empty list instead of raising
Mem_replace_last_slice(st, bucket_id, event) ==
    IF bucket_id \notin DOMAIN st.db THEN Raise(st, "KeyError")
    ELSE IF st.db[bucket_id] = <<>>
         THEN Ok([st EXCEPT !.db[bucket_id] = <<event>>], None)
         ELSE Ok([st EXCEPT !.db[bucket_id][Len(st.db[bucket_id])] = event], None)

Mem_replace_last(st, bucket_id, event) ==
    IF bucket_id \notin DOMAIN st.db THEN Raise(st, "KeyError")
    ELSE IF st.db[bucket_id] = <<>> THEN Raise(st, "IndexError")
    ELSE Ok([st EXCEPT !.db[bucket_id][Len(st.db[bucket_id])] = event], None)

----------------------------------------------------------------------------
(* FileStorageStrategy.  dirs: the bucket directories that exist; meta: the *)
(* text of each metadata.json that exists; log: the lines of each event    *)
(* log (the file named str(self._fileno), always "0") that exists.         *)

File_create_bucket(st, bucket_id, type_id, client, hostname, created, name) ==
    Ok([st EXCEPT
          !.dirs = @ \cup {bucket_id},
          !.meta = DictPut(@, bucket_id,
                     json_dumps(Metadata(bucket_id, type_id, client, hostname, created, name)))],
       None)

File_delete_bucket(st, bucket_id) ==
    IF bucket_id \notin st.dirs THEN Raise(st, "FileNotFoundError")
    ELSE Ok([dirs |-> st.dirs \ {bucket_id},
             meta |-> DictDel(st.meta, bucket_id),
             log |-> DictDel(st.log, bucket_id)], None)

File_get_events(st, bucket, limit) ==
    LET lim == IF limit = -1 THEN sys_maxsize ELSE limit
    IN  IF bucket \notin DOMAIN st.log THEN Ok(st, <<>>)
        ELSE LET lines == PySliceLast(st.log[bucket], lim)
             IN  IF \E i \in 1..Len(lines) : ~json_decodable(lines[i])
                 THEN Raise(st, "JSONDecodeError")
                 ELSE Ok(st, loads_all(lines))

File_get_metadata(st, bucket_id) ==
    IF bucket_id \notin DOMAIN st.meta THEN Raise(st, "FileNotFoundError")
    ELSE Ok(st, json_loads(st.meta[bucket_id]))

File_buckets(st) ==
    IF \E b \in st.dirs : b \notin DOMAIN st.meta THEN Raise(st, "FileNotFoundError")
    ELSE Ok(st, [b \in st.dirs |-> json_loads(st.meta[b])])

\* "\n".join(json.dumps(...) for each event) + "\n" as lines: an empty list
\* of events still appends the "\n", a blank line
str_to_append(events) ==
    IF events = <<>> THEN <<BlankLine>>
    ELSE [i \in 1..Len(events) |-> json_dumps(to_json_dict(events[i]))]

File_insert_many(st, bucket, events) ==
    IF bucket \notin st.dirs THEN Raise(st, "FileNotFoundError")
    ELSE Ok([st EXCEPT !.log =
               DictPut(@, bucket,
                       (IF bucket \in DOMAIN st.log THEN st.log[bucket] ELSE <<>>)
                       \o str_to_append(events))],
            None)

File_insert_one(st, bucket, event) == File_insert_many(st, bucket, <<event>>)

\* events[-1] = newevent.to_json_dict(); "\n".join(json.dumps(event) ...) + "\n"
newfiledata(events, newevent) ==
    [i \in 1..Len(events) |->
        json_dumps(IF i = Len(events) THEN to_json_dict(newevent) ELSE events[i])]

File_replace_last(st, bucket, newevent) ==
    LET got == File_get_events(st, bucket, -1)
        opened == [st EXCEPT !.log = DictPut(@, bucket, <<>>)]
    IN  IF got.exc # "none" THEN Raise(st, got.exc)
        ELSE IF bucket \notin st.dirs THEN Raise(st, "FileNotFoundError")
        ELSE IF got.val = <<>> THEN Raise(opened, "IndexError")
        ELSE Ok([st EXCEPT !.log = DictPut(@, bucket, newfiledata(got.val, newevent))],
                None)

----------------------------------------------------------------------------
(* MongoDBStorageStrategy.  events / meta: the documents of the collections *)
(* "<bucket>.events" and "<bucket>.metadata" that exist, in insertion      *)
(* order; a collection exists once a document was inserted into it and     *)
(* until it is dropped.  A document is known by its position, which stands *)
(* for its _id.                                                            *)

\* a stored event document: insert_one stores event.copy() (kind "Event",
\* timestamp a date), replace_last stores event.to_json_dict() (kind "dict",
\* timestamp a string)
MongoDoc(kind, fields) == [kind |-> kind, fields |-> fields]

Mongo_create_bucket(st, bucket_id, type_id, client, hostname, created, name) ==
    IF bucket_id \in DOMAIN st.meta THEN Raise(st, "DuplicateKeyError")
    ELSE Ok([st EXCEPT !.meta =
               DictPut(@, bucket_id,
                       [_id |-> "metadata",
                        md |-> Metadata(bucket_id, type_id, client, hostname, created, name)])],
            None)

Mongo_delete_bucket(st, bucket_id) ==
    Ok([events |-> DictDel(st.events, bucket_id),
        meta |-> DictDel(st.meta, bucket_id)], None)

\* find_one, then del metadata["_id"]; None when there is no document
Mongo_get_metadata(st, bucket_id) ==
    IF bucket_id \in DOMAIN st.meta THEN Ok(st, st.meta[bucket_id].md)
    ELSE Ok(st, None)

\* every name before the first '.' of a collection name is a bucket
Mongo_buckets(st) ==
    Ok(st, [b \in (DOMAIN st.events) \cup (DOMAIN st.meta) |->
               Mongo_get_metadata(st, b).val])

Mongo_insert_one(st, bucket, event) ==
    Ok([st EXCEPT !.events =
          DictPut(@, bucket,
                  (IF bucket \in DOMAIN st.events THEN st.events[bucket] ELSE <<>>)
                  \o <<MongoDoc("Event", event)>>)],
       None)

\* StorageStrategy.insert_many, which MongoDB inherits
RECURSIVE Mongo_insert_many(_, _, _)
Mongo_insert_many(st, bucket, events) ==
    IF events = <<>> THEN Ok(st, None)
    ELSE LET r == Mongo_insert_one(st, bucket, Head(events))
         IN  IF r.exc # "none" THEN r
             ELSE Mongo_insert_many(r.st, bucket, Tail(events))

\* BSON's order of the timestamp field: every string sorts below every date
BsonLess(d1, d2) ==
    IF d1.kind = d2.kind
    THEN IF d1.kind = "Event" THEN d1.fields.timestamp < d2.fields.timestamp
         ELSE d1.fields.timestamp.iso < d2.fields.timestamp.iso
    ELSE d1.kind = "dict"

\* find().sort([("timestamp", -1)]).limit(1): the positions the query may
\* return first; the order among equal timestamps is the server's choice
Mongo_sorted_first(st, bucket_id) ==
    IF bucket_id \notin DOMAIN st.events THEN {}
    ELSE LET c == st.events[bucket_id]
         IN  {i \in 1..Len(c) : \A j \in 1..Len(c) : ~BsonLess(c[i], c[j])}

\* the outcomes replace_last may have
Mongo_replace_last(st, bucket_id, event) ==
    IF Mongo_sorted_first(st, bucket_id) = {} THEN {Raise(st, "IndexError")}
    ELSE {Ok([st EXCEPT !.events[bucket_id][i] = MongoDoc("dict", to_json_dict(event))],
             None) : i \in Mongo_sorted_first(st, bucket_id)}

----------------------------------------------------------------------------
(* The calls.  Each is made on the three strategies with the same          *)
(* arguments.                                                              *)

Outcome(r) == [exc |-> r.exc, val |-> r.val]

\* a strategy that is not under test is not called
Off(st) == [st |-> st, exc |-> "off", val |-> None]

On(strategy, r, st) == IF strategy \in sel THEN r ELSE Off(st)

Configurations == {{"memory", "file"}, {"mongodb"}}

NoOutcome == [exc |-> "off", val |-> None]

\* the record of a call: the method, its arguments (those the method does
\* not take are left at a default), each strategy's outcome, and for an
\* insert whether it found the bucket as create_bucket had just left it
Call(op, b, name, type_id, events, limit, fresh, m, f, g) ==
    [op |-> op, b |-> b, name |-> name, type |-> type_id, events |-> events,
     limit |-> limit, fresh |-> fresh, rm |-> m, rf |-> f, rg |-> g]

\* lists of 0 .. MaxBatch events
RECURSIVE SeqsUpTo(_, _)
SeqsUpTo(S, n) ==
    IF n = 0 THEN {<<>>}
    ELSE LET shorter == SeqsUpTo(S, n - 1)
         IN  shorter \cup {Append(s, e) : s \in shorter, e \in S}

Batches == SeqsUpTo(StoreEvents, MaxBatch)

Limits == -1 .. MaxLimit

\* what each strategy holds under an id
MemLive(b) == b \in DOMAIN mem.db

FileLive(b) == b \in fs.dirs

MongoLive(b) == b \in DOMAIN mongo.meta

\* live in a strategy under test
Live(b) ==
    \/ "memory" \in sel /\ MemLive(b)
    \/ "file" \in sel /\ FileLive(b)
    \/ "mongodb" \in sel /\ MongoLive(b)

MemEvents(st, b) == IF b \in DOMAIN st.db THEN st.db[b] ELSE <<>>

FileLines(st, b) == IF b \in DOMAIN st.log THEN st.log[b] ELSE <<>>

\* the events of a log: its lines that hold a record
FileEvents(st, b) == SelectSeq(FileLines(st, b), json_decodable)

MongoDocs(st, b) == IF b \in DOMAIN st.events THEN st.events[b] ELSE <<>>

\* the number of events (File: log lines, MongoDB: documents) a strategy holds
RECURSIVE Total(_, _)
Total(f, ids) ==
    IF ids = {} THEN 0
    ELSE LET b == CHOOSE x \in ids : TRUE
         IN  Len(f[b]) + Total(f, ids \ {b})

Held(f) == Total(f, DOMAIN f)

\* no strategy is grown past MaxEvents by n more events (lines, documents)
Room(n) ==
    /\ Held(mem.db) + n <= MaxEvents
    /\ Held(fs.log) + n <= MaxEvents
    /\ Held(mongo.events) + n <= MaxEvents

\* the state of an id right after create_bucket made it: live, no event,
\* and no log file yet
Fresh(b) ==
    /\ MemLive(b) /\ mem.db[b] = <<>>
    /\ FileLive(b) /\ b \notin DOMAIN fs.log

Idle == [pc |-> "idle"]

create_bucket(b, type_id, name) ==
    LET m == On("memory", Mem_create_bucket(mem, b, type_id, TheClient, TheHostname, TheCreated, name), mem)
        f == On("file", File_create_bucket(fs, b, type_id, TheClient, TheHostname, TheCreated, name), fs)
        g == On("mongodb", Mongo_create_bucket(mongo, b, type_id, TheClient, TheHostname, TheCreated, name), mongo)
    IN  /\ mem' = m.st /\ fs' = f.st /\ mongo' = g.st
        /\ last' = Call("create_bucket", b, name, type_id, <<>>, 0, FALSE,
                        Outcome(m), Outcome(f), Outcome(g))
        /\ deleted' = deleted \ {b}
        /\ UNCHANGED <<sel, rl, fl>>

delete_bucket(b) ==
    LET m == On("memory", Mem_delete_bucket(mem, b), mem)
        f == On("file", File_delete_bucket(fs, b), fs)
        g == On("mongodb", Mongo_delete_bucket(mongo, b), mongo)
    IN  /\ mem' = m.st /\ fs' = f.st /\ mongo' = g.st
        /\ last' = Call("delete_bucket", b, NoName, "", <<>>, 0, FALSE,
                        Outcome(m), Outcome(f), Outcome(g))
        /\ deleted' = IF Live(b) /\ (m.exc = "none" \/ f.exc = "none" \/ g.exc = "none")
                      THEN deleted \cup {b} ELSE deleted
        /\ UNCHANGED <<sel, rl, fl>>

get_metadata(b) ==
    LET m == On("memory", Mem_get_metadata(mem, b), mem)
        f == On("file", File_get_metadata(fs, b), fs)
        g == On("mongodb", Mongo_get_metadata(mongo, b), mongo)
    IN  /\ mem' = m.st /\ fs' = f.st /\ mongo' = g.st
        /\ last' = Call("get_metadata", b, NoName, "", <<>>, 0, FALSE,
                        Outcome(m), Outcome(f), Outcome(g))
        /\ UNCHANGED <<sel, deleted, rl, fl>>

buckets ==
    LET m == On("memory", Mem_buckets(mem), mem)
        f == On("file", File_buckets(fs), fs)
        g == On("mongodb", Mongo_buckets(mongo), mongo)
    IN  /\ mem' = m.st /\ fs' = f.st /\ mongo' = g.st
        /\ last' = Call("buckets", "", NoName, "", <<>>, 0, FALSE,
                        Outcome(m), Outcome(f), Outcome(g))
        /\ UNCHANGED <<sel, deleted, rl, fl>>

\* MongoDB's get_events is not called: its answer is not part of `last`
get_events(b, limit) ==
    LET m == On("memory", Mem_get_events(mem, b, limit), mem)
        f == On("file", File_get_events(fs, b, limit), fs)
    IN  /\ mem' = m.st /\ fs' = f.st /\ UNCHANGED mongo
        /\ last' = Call("get_events", b, NoName, "", <<>>, limit, FALSE,
                        Outcome(m), Outcome(f), NoOutcome)
        /\ UNCHANGED <<sel, deleted, rl, fl>>

insert_one(b, event) ==
    LET m == On("memory", Mem_insert_one(mem, b, event), mem)
        f == On("file", File_insert_one(fs, b, event), fs)
        g == On("mongodb", Mongo_insert_one(mongo, b, event), mongo)
    IN  /\ Room(1)
        /\ mem' = m.st /\ fs' = f.st /\ mongo' = g.st
        /\ last' = Call("insert_one", b, NoName, "", <<event>>, 0, Fresh(b),
                        Outcome(m), Outcome(f), Outcome(g))
        /\ UNCHANGED <<sel, deleted, rl, fl>>

insert_many(b, events) ==
    LET m == On("memory", Mem_insert_many(mem, b, events), mem)
        f == On("file", File_insert_many(fs, b, events), fs)
        g == On("mongodb", Mongo_insert_many(mongo, b, events), mongo)
    IN  /\ Room(IF events = <<>> THEN 1 ELSE Len(events))
        /\ mem' = m.st /\ fs' = f.st /\ mongo' = g.st
        /\ last' = Call("insert_many", b, NoName, "", events, 0, Fresh(b),
                        Outcome(m), Outcome(f), Outcome(g))
        /\ UNCHANGED <<sel, deleted, rl, fl>>

replace_last(b, event) ==
    LET m == On("memory", Mem_replace_last(mem, b, event), mem)
        f == On("file", File_replace_last(fs, b, event), fs)
    IN  \E g \in (IF "mongodb" \in sel THEN Mongo_replace_last(mongo, b, event)
                ELSE {Off(mongo)}) :
          /\ mem' = m.st /\ fs' = f.st /\ mongo' = g.st
          /\ last' = Call("replace_last", b, NoName, "", <<event>>, 0, FALSE,
                          Outcome(m), Outcome(f), Outcome(g))
          /\ UNCHANGED <<sel, deleted, rl, fl>>

----------------------------------------------------------------------------
(* FileStorageStrategy.replace_last statement by statement, in a process   *)
(* that may die between any two of them.  Only the File strategy is under  *)
(* test here: what it wrote so far is what the file system keeps.          *)

\* line 264: events = self.get_events(bucket, -1)
RL_get_events(b, newevent) ==
    LET got == File_get_events(fs, b, -1)
    IN  /\ rl.pc = "idle"
        /\ IF got.exc # "none"
           THEN /\ rl' = Idle
                /\ last' = Call("replace_last", b, NoName, "", <<newevent>>, 0, FALSE,
                                NoOutcome, Outcome(got), NoOutcome)
           ELSE /\ rl' = [pc |-> "open", b |-> b, newevent |-> newevent,
                          events |-> got.val, old |-> FileLines(fs, b), data |-> <<>>]
                /\ UNCHANGED last
        /\ UNCHANGED <<sel, mem, fs, mongo, deleted, fl>>

\* line 266: open(filename, "w") creates the file or truncates it to nothing
RL_open ==
    /\ rl.pc = "open"
    /\ IF rl.b \notin fs.dirs
       THEN /\ rl' = Idle
            /\ last' = Call("replace_last", rl.b, NoName, "", <<rl.newevent>>, 0, FALSE,
                            NoOutcome, Outcome(Raise(fs, "FileNotFoundError")), NoOutcome)
            /\ UNCHANGED fs
       ELSE /\ rl' = [rl EXCEPT !.pc = "assign"]
            /\ fs' = [fs EXCEPT !.log = DictPut(@, rl.b, <<>>)]
            /\ UNCHANGED last
    /\ UNCHANGED <<sel, mem, mongo, deleted, fl>>

\* lines 267-268: events[-1] = ..., which raises IndexError on an empty list
\* (the with block then closes the file), and newfiledata
RL_assign ==
    /\ rl.pc = "assign"
    /\ IF rl.events = <<>>
       THEN /\ rl' = Idle
            /\ last' = Call("replace_last", rl.b, NoName, "", <<rl.newevent>>, 0, FALSE,
                            NoOutcome, Outcome(Raise(fs, "IndexError")), NoOutcome)
       ELSE /\ rl' = [rl EXCEPT !.pc = "write", !.data = newfiledata(rl.events, rl.newevent)]
            /\ UNCHANGED last
    /\ UNCHANGED <<sel, mem, fs, mongo, deleted, fl>>

\* line 269: f.write(newfiledata) is buffered: before the file is closed any
\* leading part of the data may have reached the file
RL_write ==
    /\ rl.pc = "write"
    /\ \E k \in 0..Len(rl.data) :
          fs' = [fs EXCEPT !.log = DictPut(@, rl.b, SubSeq(rl.data, 1, k))]
    /\ rl' = [rl EXCEPT !.pc = "close"]
    /\ UNCHANGED <<sel, mem, mongo, last, deleted, fl>>

\* the end of the with block: the file is flushed and closed, the call returns
RL_close ==
    /\ rl.pc = "close"
    /\ fs' = [fs EXCEPT !.log = DictPut(@, rl.b, rl.data)]
    /\ rl' = Idle
    /\ last' = Call("replace_last", rl.b, NoName, "", <<rl.newevent>>, 0, FALSE,
                    NoOutcome, Outcome(Ok(fs', None)), NoOutcome)
    /\ UNCHANGED <<sel, mem, mongo, deleted, fl>>

\* the process dies inside replace_last: its locals are gone, the files stay
Crash ==
    /\ rl.pc \in {"open", "assign", "write", "close"}
    /\ rl' = [rl EXCEPT !.pc = "crashed"]
    /\ UNCHANGED <<sel, mem, fs, mongo, last, deleted, fl>>

\* a new process constructs the strategy over the same directory
Restart ==
    /\ rl.pc = "crashed"
    /\ rl' = Idle
    /\ UNCHANGED <<sel, mem, fs, mongo, last, deleted, fl>>

----------------------------------------------------------------------------
(* flood (aw_transform/flood.py).  Times are whole seconds.                *)

\* most timestamp, duration and pulsetime, and most events, flood is given
MaxTime == 4
MaxDur == 2
MaxPulse == 1
MaxFlood == 3

Datas == {"x", "y"}

FloodEvents == {Event(t, d, x) : t \in 0..MaxTime, d \in 0..MaxDur, x \in Datas}

FloodInputs == SeqsUpTo(FloodEvents, MaxFlood)

\* a flood that leaves the events in the order they were given
unsorted(events) == events

\* sorted(events, key=lambda e: e.timestamp): stable, equal timestamps keep
\* their order
RECURSIVE sorted(_)
sorted(events) ==
    IF events = <<>> THEN <<>>
    ELSE LET n == Len(events)
             e == events[n]
             front == sorted(SubSeq(events, 1, n - 1))
             k == Cardinality({i \in 1..(n - 1) : front[i].timestamp <= e.timestamp})
         IN  SubSeq(front, 1, k) \o <<e>> \o SubSeq(front, k + 1, n - 1)

\* a loop body that takes the merging branches whatever the gap is
flood_pair_any_gap(e1, e2, pulsetime) ==
    LET e2_end == e2.timestamp + e2.duration
    IN  IF e1.duration >= e2.duration
        THEN IF e1.data = e2.data
             THEN <<[e1 EXCEPT !.duration = e2_end - e1.timestamp],
                    [e2 EXCEPT !.timestamp = e2_end, !.duration = 0]>>
             ELSE <<[e1 EXCEPT !.duration = e2.timestamp - e1.timestamp], e2>>
        ELSE IF e1.data = e2.data
             THEN <<[e1 EXCEPT !.duration = 0],
                    [e2 EXCEPT !.timestamp = e1.timestamp,
                               !.duration = e2_end - e1.timestamp]>>
             ELSE <<e1,
                    [e2 EXCEPT !.timestamp = e1.timestamp + e1.duration,
                               !.duration = e2_end - (e1.timestamp + e1.duration)]>>

\* a loop body that moves a dominant e2 to e1's start after it took e2's
\* duration, so that e2 keeps its old duration
flood_pair_late_start(e1, e2, pulsetime) ==
    LET gap == e2.timestamp - (e1.timestamp + e1.duration)
        e2_end == e2.timestamp + e2.duration
    IN  IF gap <= pulsetime
        THEN IF e1.duration >= e2.duration
             THEN IF e1.data = e2.data
                  THEN <<[e1 EXCEPT !.duration = e2_end - e1.timestamp],
                         [e2 EXCEPT !.timestamp = e2_end, !.duration = 0]>>
                  ELSE <<[e1 EXCEPT !.duration = e2.timestamp - e1.timestamp], e2>>
             ELSE IF e1.data = e2.data
                  THEN <<[e1 EXCEPT !.duration = 0],
                         [e2 EXCEPT !.timestamp = e1.timestamp,
                                    !.duration = e2_end - e2.timestamp]>>
                  ELSE <<e1,
                         [e2 EXCEPT !.timestamp = e1.timestamp + e1.duration,
                                    !.duration = e2_end - (e1.timestamp + e1.duration)]>>
        ELSE <<e1, e2>>

\* a loop body where e1 dominates only when it is strictly longer than e2
flood_pair_strict(e1, e2, pulsetime) ==
    LET gap == e2.timestamp - (e1.timestamp + e1.duration)
        e2_end == e2.timestamp + e2.duration
    IN  IF gap <= pulsetime
        THEN IF e1.duration > e2.duration
             THEN IF e1.data = e2.data
                  THEN <<[e1 EXCEPT !.duration = e2_end - e1.timestamp],
                         [e2 EXCEPT !.timestamp = e2_end, !.duration = 0]>>
                  ELSE <<[e1 EXCEPT !.duration = e2.timestamp - e1.timestamp], e2>>
             ELSE IF e1.data = e2.data
                  THEN <<[e1 EXCEPT !.duration = 0],
                         [e2 EXCEPT !.timestamp = e1.timestamp,
                                    !.duration = e2_end - e1.timestamp]>>
                  ELSE <<e1,
                         [e2 EXCEPT !.timestamp = e1.timestamp + e1.duration,
                                    !.duration = e2_end - (e1.timestamp + e1.duration)]>>
        ELSE <<e1, e2>>

\* a loop body that leaves a merged-away e2 where it was instead of moving
\* it to the end of the merged event
flood_pair_stale_e2(e1, e2, pulsetime) ==
    LET gap == e2.timestamp - (e1.timestamp + e1.duration)
        e2_end == e2.timestamp + e2.duration
    IN  IF gap <= pulsetime
        THEN IF e1.duration >= e2.duration
             THEN IF e1.data = e2.data
                  THEN <<[e1 EXCEPT !.duration = e2_end - e1.timestamp],
                         [e2 EXCEPT !.duration = 0]>>
                  ELSE <<[e1 EXCEPT !.duration = e2.timestamp - e1.timestamp], e2>>
             ELSE IF e1.data = e2.data
                  THEN <<[e1 EXCEPT !.duration = 0],
                         [e2 EXCEPT !.timestamp = e1.timestamp,
                                    !.duration = e2_end - e1.timestamp]>>
                  ELSE <<e1,
                         [e2 EXCEPT !.timestamp = e1.timestamp + e1.duration,
                                    !.duration = e2_end - (e1.timestamp + e1.duration)]>>
        ELSE <<e1, e2>>

\* the body of the loop for one pair (e1, e2): the pair after it
flood_pair(e1, e2, pulsetime) ==
    LET gap == e2.timestamp - (e1.timestamp + e1.duration)
        e2_end == e2.timestamp + e2.duration
    IN  IF gap <= pulsetime
        THEN IF e1.duration >= e2.duration
             THEN IF e1.data = e2.data
                  THEN <<[e1 EXCEPT !.duration = e2_end - e1.timestamp],
                         [e2 EXCEPT !.timestamp = e2_end, !.duration = 0]>>
                  ELSE <<[e1 EXCEPT !.duration = e2.timestamp - e1.timestamp], e2>>
             ELSE IF e1.data = e2.data
                  THEN <<[e1 EXCEPT !.duration = 0],
                         [e2 EXCEPT !.timestamp = e1.timestamp,
                                    !.duration = e2_end - e1.timestamp]>>
                  ELSE <<e1,
                         [e2 EXCEPT !.timestamp = e1.timestamp + e1.duration,
                                    !.duration = e2_end - (e1.timestamp + e1.duration)]>>
        ELSE <<e1, e2>>

\* a loop that closes a gap within pulsetime by putting a new event of e1's
\* data into it instead of stretching e1 or e2
RECURSIVE flood_loop_fill(_, _, _)
flood_loop_fill(events, i, pulsetime) ==
    IF i >= Len(events) THEN events
    ELSE LET e1 == events[i]
             e2 == events[i + 1]
             gap == e2.timestamp - (e1.timestamp + e1.duration)
         IN  IF gap > 0 /\ gap <= pulsetime
             THEN flood_loop_fill(
                      SubSeq(events, 1, i)
                        \o <<[e1 EXCEPT !.timestamp = e1.timestamp + e1.duration,
                                        !.duration = gap]>>
                        \o SubSeq(events, i + 1, Len(events)),
                      i + 2, pulsetime)
             ELSE flood_loop_fill(events, i + 1, pulsetime)

\* for e1, e2 in zip(events[:-1], events[1:]): the pairs share the event
\* objects, so pair i + 1 sees what pair i did to its e2
RECURSIVE flood_loop(_, _, _)
flood_loop(events, i, pulsetime) ==
    IF i >= Len(events) THEN events
    ELSE LET pair == flood_pair(events[i], events[i + 1], pulsetime)
         IN  flood_loop([events EXCEPT ![i] = pair[1], ![i + 1] = pair[2]],
                        i + 1, pulsetime)

\* a filter that drops the events of duration zero only
nonzero_duration(e) == e.duration # 0

\* [e for e in events if e.duration > timedelta(0)]
positive_duration(e) == e.duration > 0

\* the working events after the loop, before the filter
flood_pass(events, pulsetime) == flood_loop(sorted(events), 1, pulsetime)

flood(events, pulsetime) == SelectSeq(flood_pass(events, pulsetime), positive_duration)

NoFlood == [pc |-> "off"]

\* flood applied to the input
Flood ==
    /\ fl.pc = "input"
    /\ fl' = [fl EXCEPT !.pc = "once", !.out = flood(fl.input, fl.pulsetime)]
    /\ UNCHANGED <<sel, mem, fs, mongo, last, deleted, rl>>

\* flood applied to its own result, with the same pulsetime
FloodAgain ==
    /\ fl.pc = "once"
    /\ fl' = [fl EXCEPT !.pc = "twice", !.again = flood(fl.out, fl.pulsetime)]
    /\ UNCHANGED <<sel, mem, fs, mongo, last, deleted, rl>>

----------------------------------------------------------------------------
(* Specifications *)

NoCall == Call("init", "", NoName, "", <<>>, 0, FALSE, NoOutcome, NoOutcome, NoOutcome)

EmptyStores ==
    /\ mem = [db |-> EmptyDict, meta |-> EmptyDict]
    /\ fs = [dirs |-> {}, meta |-> EmptyDict, log |-> EmptyDict]
    /\ mongo = [events |-> EmptyDict, meta |-> EmptyDict]
    /\ last = NoCall
    /\ deleted = {}
    /\ rl = Idle

Init ==
    /\ sel \in Configurations
    /\ EmptyStores
    /\ fl = NoFlood

Next ==
    \/ \E b \in BucketIds, t \in TypeIds, n \in Names : create_bucket(b, t, n)
    \/ \E b \in BucketIds : delete_bucket(b)
    \/ \E b \in BucketIds : get_metadata(b)
    \/ buckets
    \/ \E b \in BucketIds, limit \in Limits : get_events(b, limit)
    \/ \E b \in BucketIds, e \in StoreEvents : insert_one(b, e)
    \/ \E b \in BucketIds, es \in Batches : insert_many(b, es)
    \/ \E b \in BucketIds, e \in StoreEvents : replace_last(b, e)

\* the strategies driven call by call
Spec == Init /\ [][Next]_vars

InitCrash ==
    /\ sel = {"file"}
    /\ EmptyStores
    /\ fl = NoFlood

NextCrash ==
    \/ /\ rl.pc = "idle"
       /\ \/ \E b \in BucketIds, t \in TypeIds, n \in Names : create_bucket(b, t, n)
          \/ \E b \in BucketIds : delete_bucket(b)
          \/ \E b \in BucketIds, limit \in Limits : get_events(b, limit)
          \/ \E b \in BucketIds, es \in Batches : insert_many(b, es)
    \/ \E b \in BucketIds, e \in StoreEvents : RL_get_events(b, e)
    \/ RL_open
    \/ RL_assign
    \/ RL_write
    \/ RL_close
    \/ Crash
    \/ Restart

\* the File strategy with replace_last run statement by statement
SpecCrash == InitCrash /\ [][NextCrash]_vars

InitFlood ==
    /\ sel = {}
    /\ EmptyStores
    /\ fl \in {[pc |-> "input", input |-> es, pulsetime |-> p, out |-> <<>>, again |-> <<>>] :
                 es \in FloodInputs, p \in 0..MaxPulse}

NextFlood == Flood \/ FloodAgain

\* flood applied to every input within the bounds, then to its own result
SpecFlood == InitFlood /\ [][NextFlood]_vars

----------------------------------------------------------------------------
(* Properties.  A call "fails" when it raises: the contract's NotFound,    *)
(* AlreadyExists and InvalidPrecondition are KeyError, FileNotFoundError,  *)
(* DuplicateKeyError and IndexError in this code.                          *)

Raised(r) == r.exc \notin {"none", "off"}

Returned(r) == r.exc = "none"

Reverse(s) == [i \in 1..Len(s) |-> s[Len(s) + 1 - i]]

\* the k most recently inserted of s, oldest first
MostRecent(s, k) == SubSeq(s, Len(s) - k + 1, Len(s))

Min(a, b) == IF a <= b THEN a ELSE b

\* s with its last element replaced by x
WithLast(s, x) == [s EXCEPT ![Len(s)] = x]

\* C1: create_bucket on an id that is live fails (AlreadyExists) and leaves
\* the bucket's metadata and events as they were, in Memory and in File.
C1_CreateExistingFails ==
    [][\A b \in BucketIds :
         (last'.op = "create_bucket" /\ last'.b = b) =>
            /\ ("memory" \in sel /\ MemLive(b)) => (Raised(last'.rm) /\ mem' = mem)
            /\ ("file" \in sel /\ FileLive(b)) => (Raised(last'.rf) /\ fs' = fs)]_vars

\* what C2 expects of get_events(limit) on a bucket holding `held`: all of
\* it for -1, else the min(limit, n) most recent, in either order
C2_Expected(held, limit, got) ==
    LET k == IF limit = -1 THEN Len(held) ELSE Min(limit, Len(held))
    IN  got \in {MostRecent(held, k), Reverse(MostRecent(held, k))}

\* C2: get_events(id, limit) on a live bucket of n events returns exactly
\* the min(limit, n) most recently inserted events for limit >= 0 (none for
\* limit = 0) and all n for limit = -1, in Memory and in File.
C2_GetEventsLimit ==
    (last.op = "get_events" /\ last.limit >= -1) =>
        /\ ("memory" \in sel /\ MemLive(last.b)) =>
              /\ Returned(last.rm)
              /\ C2_Expected(mem.db[last.b], last.limit, last.rm.val)
        /\ ("file" \in sel /\ FileLive(last.b)) =>
              /\ Returned(last.rf)
              /\ C2_Expected(loads_all(FileEvents(fs, last.b)), last.limit,
                             last.rf.val)

\* C3: insert_many(id, evs) on a freshly created bucket followed by
\* get_events(id, -1) returns evs reversed (newest first), content-equal,
\* in Memory and in File.
C3_InsertManyThenGetAll ==
    [][(/\ last.op = "insert_many" /\ last.fresh
        /\ last'.op = "get_events" /\ last'.b = last.b /\ last'.limit = -1) =>
          /\ Returned(last'.rm) /\ last'.rm.val = Reverse(last.events)
          /\ Returned(last'.rf)
          /\ last'.rf.val = Reverse(to_json_dicts(last.events))]_vars

\* C4: replace_last(id, B) on a bucket of n >= 1 events keeps n, keeps the
\* first n - 1 events, makes B the last one, a following get_events(id, 1)
\* returns [B], and every other bucket is unchanged, in Memory and in File.
C4_ReplaceLast ==
    [][\A b \in BucketIds :
         (last'.op = "replace_last" /\ last'.b = b) =>
            LET B == last'.events[1] IN
            /\ ("memory" \in sel /\ MemLive(b) /\ Len(mem.db[b]) >= 1) =>
                  /\ Returned(last'.rm)
                  /\ MemEvents(mem', b) = WithLast(mem.db[b], B)
                  /\ Mem_get_events(mem', b, 1).exc = "none"
                  /\ Mem_get_events(mem', b, 1).val = <<B>>
                  /\ DictDel(mem'.db, b) = DictDel(mem.db, b)
                  /\ mem'.meta = mem.meta
            /\ ("file" \in sel /\ FileLive(b) /\ Len(FileEvents(fs, b)) >= 1) =>
                  /\ Returned(last'.rf)
                  /\ FileEvents(fs', b)
                       = WithLast(FileEvents(fs, b), json_dumps(to_json_dict(B)))
                  /\ File_get_events(fs', b, 1).exc = "none"
                  /\ File_get_events(fs', b, 1).val = <<to_json_dict(B)>>
                  /\ DictDel(fs'.log, b) = DictDel(fs.log, b)
                  /\ fs'.meta = fs.meta /\ fs'.dirs = fs.dirs]_vars

\* C5: replace_last on a live bucket that holds no events fails (it raises,
\* it never returns normally) and the bucket still holds no events, in
\* every strategy.
C5_ReplaceLastEmptyFails ==
    [][\A b \in BucketIds :
         (last'.op = "replace_last" /\ last'.b = b) =>
            /\ ("memory" \in sel /\ MemLive(b) /\ mem.db[b] = <<>>) =>
                  (Raised(last'.rm) /\ MemLive(b)' /\ MemEvents(mem', b) = <<>>)
            /\ ("file" \in sel /\ FileLive(b) /\ FileEvents(fs, b) = <<>>) =>
                  (Raised(last'.rf) /\ FileLive(b)' /\ FileEvents(fs', b) = <<>>)
            /\ ("mongodb" \in sel /\ MongoLive(b) /\ MongoDocs(mongo, b) = <<>>) =>
                  (Raised(last'.rg) /\ MongoLive(b)' /\ MongoDocs(mongo', b) = <<>>)]_vars

\* C5's case: replace_last was called on a live bucket without events and
\* raised IndexError in Memory and in File, which created an empty log
C5_Witness ==
    /\ last.op = "replace_last"
    /\ last.rm.exc = "IndexError" /\ last.rf.exc = "IndexError"
    /\ MemLive(last.b) /\ mem.db[last.b] = <<>>
    /\ FileLive(last.b) /\ last.b \in DOMAIN fs.log /\ fs.log[last.b] = <<>>

\* C6: after delete_bucket removed a bucket and until the id is created
\* again, get_metadata and get_events (any limit) on it fail (NotFound), in
\* Memory and in File.
C6_DeletedNotFound ==
    (last.op \in {"get_metadata", "get_events"} /\ last.b \in deleted) =>
        /\ "memory" \in sel => Raised(last.rm)
        /\ "file" \in sel => Raised(last.rf)

\* C7: insert_one and insert_many on an id without a live bucket fail
\* (NotFound) and change nothing: buckets() lists the same ids as before
\* and no event is stored under the id, in every strategy.
C7_InsertAbsentFails ==
    [][\A b \in BucketIds :
         (last'.op \in {"insert_one", "insert_many"} /\ last'.b = b) =>
            /\ ("memory" \in sel /\ ~MemLive(b)) =>
                  /\ Raised(last'.rm) /\ mem' = mem
                  /\ DOMAIN Mem_buckets(mem').val = DOMAIN Mem_buckets(mem).val
            /\ ("file" \in sel /\ ~FileLive(b)) =>
                  /\ Raised(last'.rf) /\ fs' = fs
                  /\ DOMAIN File_buckets(fs').val = DOMAIN File_buckets(fs).val
            /\ ("mongodb" \in sel /\ ~MongoLive(b)) =>
                  /\ Raised(last'.rg) /\ mongo' = mongo
                  /\ DOMAIN Mongo_buckets(mongo').val = DOMAIN Mongo_buckets(mongo).val
                  /\ MongoDocs(mongo', b) = <<>>]_vars

\* C8: while FileStorageStrategy.replace_last runs on a bucket that held
\* events, and after a crash inside it, the bucket's log holds either the
\* complete old content or the complete replacement content.
C8_CrashAtomic ==
    (rl.pc # "idle" /\ rl.old # <<>>) =>
        FileLines(fs, rl.b) \in {rl.old, newfiledata(rl.events, rl.newevent)}

\* the two strategies answered a call alike: both raised, or both returned
\* the same value (Memory's events compared by their JSON content)
C9_SameOutcome ==
    \/ Raised(last.rm) /\ Raised(last.rf)
    \/ /\ Returned(last.rm) /\ Returned(last.rf)
       /\ IF last.op = "get_events"
          THEN to_json_dicts(last.rm.val) = last.rf.val
          ELSE last.rm.val = last.rf.val

\* the two strategies store the same buckets, metadata and events
C9_SameStore ==
    /\ DOMAIN mem.db = fs.dirs
    /\ \A b \in fs.dirs :
          /\ File_get_metadata(fs, b).exc = "none"
          /\ mem.meta[b] = File_get_metadata(fs, b).val
          /\ [i \in 1..Len(mem.db[b]) |-> json_dumps(to_json_dict(mem.db[b][i]))]
               = FileLines(fs, b)

\* C9: Memory and File, run side by side on the same calls, answer every
\* call alike and keep equal stores.
C9_MemoryFileEquivalent ==
    ({"memory", "file"} \subseteq sel /\ last.op # "init") =>
        (C9_SameOutcome /\ C9_SameStore)

\* C10: flood(flood(events, p), p) = flood(events, p).
C10_FloodIdempotent ==
    fl.pc = "twice" => fl.again = fl.out

\* the end of an event and the gap from the end of e1 to the start of e2
End(e) == e.timestamp + e.duration

Gap(e1, e2) == e2.timestamp - End(e1)

Flooded == fl.pc = "once"

AllPositive(events) == \A i \in 1..Len(events) : events[i].duration > 0

Ascending(events) ==
    \A i, j \in 1..Len(events) : i < j => events[i].timestamp <= events[j].timestamp

\* C11: flood returns for every input, and never more events than it was
\* given: nothing for an empty input, at most one event for a single one.
C11_FloodNeverExpands ==
    Flooded =>
        /\ Len(fl.out) <= Len(fl.input)
        /\ fl.input = <<>> => fl.out = <<>>
        /\ Len(fl.input) = 1 => Len(fl.out) <= 1

\* C11's case: three events went in and a merge left two
C11_Witness ==
    Flooded /\ Len(fl.input) = MaxFlood /\ Len(fl.out) = MaxFlood - 1

\* C12: no event flood returns has a negative duration, overlapping inputs
\* included (every input here has durations >= 0 and pulsetime >= 0).
C12_NoNegativeDuration ==
    Flooded => \A i \in 1..Len(fl.out) : fl.out[i].duration >= 0

\* C12's case: the pass over overlapping events left an event with a
\* negative duration, and flood returned some events
C12_Witness ==
    /\ Flooded /\ fl.out # <<>>
    /\ \E i \in 1..Len(fl.input) :
          flood_pass(fl.input, fl.pulsetime)[i].duration < 0

\* e1 then e2: positive durations, e1 starts first, 0 <= gap <= pulsetime
Mergeable(e1, e2) ==
    /\ e1.duration > 0 /\ e2.duration > 0
    /\ e1.timestamp < e2.timestamp
    /\ Gap(e1, e2) >= 0 /\ Gap(e1, e2) <= fl.pulsetime

C13_Case(e1, e2) ==
    (Mergeable(e1, e2) /\ e1.data = e2.data) =>
        fl.out = <<Event(e1.timestamp, End(e2) - e1.timestamp, e1.data)>>

\* C13: for two events of equal data and positive durations, e1 before e2
\* with 0 <= gap <= pulsetime, flood of the two in either input order
\* returns exactly one event: e1's timestamp, e2's end, the shared data,
\* whichever of the two is the longer.
C13_SameDataMerged ==
    (Flooded /\ Len(fl.input) = 2) =>
        /\ C13_Case(fl.input[1], fl.input[2])
        /\ C13_Case(fl.input[2], fl.input[1])

\* C13's case: the later, longer event was given first, with a real gap
C13_Witness ==
    /\ Flooded /\ Len(fl.input) = 2
    /\ Mergeable(fl.input[2], fl.input[1])
    /\ fl.input[1].data = fl.input[2].data
    /\ fl.input[1].duration > fl.input[2].duration
    /\ Gap(fl.input[2], fl.input[1]) > 0
    /\ Len(fl.out) = 1

\* every event is further than pulsetime from the events that start at or
\* after its start; with positive durations this is the same as every
\* timestamp-adjacent pair of the sorted input having gap > pulsetime
AllApart(events, pulsetime) ==
    \A i, j \in 1..Len(events) :
        (i # j /\ events[i].timestamp <= events[j].timestamp) =>
            Gap(events[i], events[j]) > pulsetime

\* C14: when all durations are positive and every timestamp-adjacent pair
\* lies further apart than pulsetime, flood returns the input sorted by
\* timestamp with every event unchanged, equal adjacent data or not.
C14_ApartUnchanged ==
    (Flooded /\ AllPositive(fl.input) /\ AllApart(fl.input, fl.pulsetime)) =>
        /\ Len(fl.out) = Len(fl.input)
        /\ {fl.out[i] : i \in 1..Len(fl.out)} = {fl.input[i] : i \in 1..Len(fl.input)}
        /\ Ascending(fl.out)

\* C14's case: three events, two of them of equal data, the latest given
\* first
C14_Witness ==
    /\ Flooded /\ Len(fl.input) = 3
    /\ AllPositive(fl.input) /\ AllApart(fl.input, fl.pulsetime)
    /\ fl.input[1].timestamp > fl.input[2].timestamp
    /\ fl.input[1].data = fl.input[2].data

\* one operation's effect on an event sequence: left alone, extended at the
\* end, or only its last element replaced
SeqStep(old, new) ==
    \/ new = old
    \/ Len(new) > Len(old) /\ SubSeq(new, 1, Len(old)) = old
    \/ /\ Len(old) >= 1 /\ Len(new) = Len(old)
       /\ SubSeq(new, 1, Len(old) - 1) = SubSeq(old, 1, Len(old) - 1)

\* C15: between a bucket's creation and its deletion every operation,
\* create_bucket on the same id included, leaves its event sequence alone,
\* appends to it, or replaces only its last element; the sequence never
\* gets shorter, in Memory and in File.
C15_EventsOnlyGrow ==
    [][\A b \in BucketIds :
         /\ ("memory" \in sel /\ MemLive(b) /\ MemLive(b)') =>
               SeqStep(mem.db[b], MemEvents(mem', b))
         /\ ("file" \in sel /\ FileLive(b) /\ FileLive(b)') =>
               SeqStep(FileEvents(fs, b), FileEvents(fs', b))]_vars

SameDoc(d1, d2) == d1.kind = d2.kind /\ d1.fields = d2.fields

\* the document holds event e, as inserted or as replace_one stores it
DocOf(d, e) == IF d.kind = "dict" THEN d.fields = to_json_dict(e) ELSE d.fields = e

\* C16: MongoDB's replace_last overwrites the most recently inserted event
\* of the bucket, also when the events were inserted out of timestamp
\* order: that one document is replaced and all others are unchanged.
C16_MongoReplacesNewest ==
    [][\A b \in BucketIds :
         (/\ "mongodb" \in sel /\ last'.op = "replace_last" /\ last'.b = b
          /\ MongoLive(b) /\ Len(MongoDocs(mongo, b)) >= 1) =>
            LET old == MongoDocs(mongo, b)
                new == MongoDocs(mongo', b)
                n == Len(old)
            IN  /\ Len(new) = n
                /\ \A i \in 1..(n - 1) : SameDoc(new[i], old[i])
                /\ DocOf(new[n], last'.events[1])]_vars

\* C17: for two events of different data and positive durations, e1 before
\* e2 with 0 <= gap <= pulsetime, flood([e1, e2]) returns both with the gap
\* closed: when e1 is at least as long as e2, e1 ends where e2 starts and
\* e2 is unchanged; else e2 starts where e1 ends, keeps its end, and e1 is
\* unchanged.
C17_DifferentDataClosed ==
    (/\ Flooded /\ Len(fl.input) = 2
     /\ Mergeable(fl.input[1], fl.input[2])
     /\ fl.input[1].data # fl.input[2].data) =>
        LET e1 == fl.input[1]
            e2 == fl.input[2]
        IN  /\ Len(fl.out) = 2
            /\ End(fl.out[1]) = fl.out[2].timestamp
            /\ IF e1.duration >= e2.duration
               THEN fl.out = <<Event(e1.timestamp, e2.timestamp - e1.timestamp, e1.data),
                               e2>>
               ELSE fl.out = <<e1, Event(End(e1), End(e2) - End(e1), e2.data)>>

\* C17's case: equally long events of different data with a real gap
C17_Witness ==
    /\ Flooded /\ Len(fl.input) = 2
    /\ Mergeable(fl.input[1], fl.input[2])
    /\ fl.input[1].data # fl.input[2].data
    /\ fl.input[1].duration = fl.input[2].duration
    /\ Gap(fl.input[1], fl.input[2]) > 0
    /\ Len(fl.out) = 2

C19_DiscardsExactlyZero ==
    Flooded =>
        LET NonZero(e) == e.duration # 0
        IN  fl.out = SelectSeq(flood_pass(fl.input, fl.pulsetime), NonZero)

\* a chain: one data, positive durations, strictly increasing timestamps,
\* every consecutive gap within 0..pulsetime
Chain(events, pulsetime) ==
    /\ Len(events) >= 1
    /\ AllPositive(events)
    /\ \A i \in 1..Len(events) : events[i].data = events[1].data
    /\ \A i \in 1..(Len(events) - 1) :
          /\ events[i].timestamp < events[i + 1].timestamp
          /\ Gap(events[i], events[i + 1]) >= 0
          /\ Gap(events[i], events[i + 1]) <= pulsetime

\* C20: flood of a chain tiles the interval from the first start to the
\* last end: the first returned event starts at the first input's
\* timestamp, the last ends at the last input's end, each returned event
\* ends where the next starts, and all carry the shared data.
C20_ChainTiled ==
    (Flooded /\ Chain(fl.input, fl.pulsetime)) =>
        LET n == Len(fl.out) IN
        /\ n >= 1
        /\ fl.out[1].timestamp = fl.input[1].timestamp
        /\ End(fl.out[n]) = End(fl.input[Len(fl.input)])
        /\ \A i \in 1..(n - 1) : End(fl.out[i]) = fl.out[i + 1].timestamp
        /\ \A i \in 1..n : fl.out[i].data = fl.input[1].data

\* C20's case: a chain of three with a real gap, returned as two events
C20_Witness ==
    /\ Flooded /\ Chain(fl.input, fl.pulsetime)
    /\ Len(fl.input) = 3 /\ Len(fl.out) = 2
    /\ \E i \in 1..2 : Gap(fl.input[i], fl.input[i + 1]) > 0

====
